---- MODULE Spec2Model ----
(***************************************************************************)
(* Model of the credit-card statement parser front end:                    *)
(*   - DonutAnalytics (src/src/DonutAnalytics.js:10-129), the spending     *)
(*     breakdown: filter, sort, top-4 / Others split, total, percentages;  *)
(*   - App (src/src/DonutAnalytics.js:140-232), the orchestration shell:   *)
(*     file / bank selection and the asynchronous handleSubmit.            *)
(***************************************************************************)
EXTENDS Integers, Sequences, FiniteSets, TLC

VARIABLES
    data,        \* DonutAnalytics: the `data` prop
    view,        \* DonutAnalytics: what the component returned
    bank,        \* App: useState('axis')
    file,        \* App: useState(null)
    parsedData,  \* App: useState(null)
    isLoading,   \* App: useState(false)
    error,       \* App: useState('')
    calls,       \* App: the invocations of handleSubmit (position, closure, pending value)
    running,     \* App: the invocation whose synchronous section is executing, 0 if none
    nSubmits,    \* App: number of handleSubmit invocations so far
    requests,    \* App: number of fetch() calls issued so far
    disabled,    \* App: the disabled attribute of the submit button, as last rendered
    shownError   \* App: the error text on the page, as last rendered ('' if none)

vars == <<data, view, bank, file, parsedData, isLoading, error, calls, running,
          nSubmits, requests, disabled, shownError>>

analyticsVars == <<data, view>>
shellVars == <<bank, file, parsedData, isLoading, error, calls, running, nSubmits, requests,
               disabled, shownError>>

\* JavaScript null / undefined, as values of `file`.
Null == "null"
Undefined == "undefined"

-----------------------------------------------------------------------------
(***************************************************************************)
(* JavaScript numbers.  Amounts are IEEE-754 doubles.  A non-negative      *)
(* double is written [hi, lo] and denotes hi * 2^53 + lo, with lo far      *)
(* below 2^53; this covers the exactly representable small integers and    *)
(* the integers just above 2^53, where `+` starts to round.                *)
(***************************************************************************)
MaxTxns == 6        \* longest transaction list drawn

Num(h, l) == [hi |-> h, lo |-> l]
Zero == Num(0, 0)
One == Num(0, 1)
Big == Num(1, 0)    \* 2^53 = 9007199254740992

IsZero(x) == x.hi = 0 /\ x.lo = 0

\* Number of bits of h (h >= 1): the exponent of the unit in the last place
\* of a double in [h * 2^53, (h+1) * 2^53).
RECURSIVE BitLength(_)
BitLength(h) == IF h = 0 THEN 0 ELSE 1 + BitLength(h \div 2)

RECURSIVE Pow2(_)
Pow2(k) == IF k = 0 THEN 1 ELSE 2 * Pow2(k - 1)

\* Round the exact value h * 2^53 + l to the nearest double, ties to even.
RoundToDouble(h, l) ==
    IF h = 0 THEN Num(0, l)
    ELSE LET ulp == Pow2(BitLength(h))
             q == l \div ulp
             r == l % ulp
         IN  IF 2 * r < ulp THEN Num(h, l - r)
             ELSE IF 2 * r > ulp THEN Num(h, l - r + ulp)
             ELSE IF q % 2 = 0 THEN Num(h, l - r)
             ELSE Num(h, l - r + ulp)

\* x + y on doubles.
Plus(x, y) == RoundToDouble(x.hi + y.hi, x.lo + y.lo)

\* Sign of (x - y): the comparator of line 18 only uses the sign.
Less(x, y) == x.hi < y.hi \/ (x.hi = y.hi /\ x.lo < y.lo)

-----------------------------------------------------------------------------
(***************************************************************************)
(* DonutAnalytics                                                          *)
(***************************************************************************)
Descriptions == <<"Amazon", "Swiggy", "Uber", "Zomato", "Flipkart", "Netflix", "IRCTC", "Myntra">>
Amounts == {Zero, One, Big}
Types == {"debit", "credit"}

\* A transaction of the payload; its description names its position in the list.
Txn(i, a, t) == [description |-> Descriptions[i], amount |-> a, type |-> t]

\* The `data` prop: null, an object without a transactions field, or a statement.
NullData == [isNull |-> TRUE]
NoTransactionsData == [bank_name |-> "Axis Bank"]
Statement(l) == [bank_name |-> "Axis Bank", transactions |-> l]

\* line 11: !data || !data.transactions
HasTransactions(d) == d # NullData /\ "transactions" \in DOMAIN d

\* line 17: t => t.type === 'debit'
IsDebit(t) == t.type = "debit"

\* Mutant of Before: ascending comparator (a.amount - b.amount).
BeforeAscending(a, b) == Less(a.amount, b.amount)

\* line 18: (a, b) => b.amount - a.amount is negative, i.e. a sorts before b.
Before(a, b) == Less(b.amount, a.amount)

\* Insert t into the sorted sequence s after every element that does not
\* sort after it (stable).
RECURSIVE Insert(_, _)
Insert(s, t) ==
    IF s = <<>> THEN <<t>>
    ELSE IF Before(t, Head(s)) THEN <<t>> \o s
    ELSE <<Head(s)>> \o Insert(Tail(s), t)

\* line 18: Array.prototype.sort, a stable sort.
RECURSIVE SortDesc(_)
SortDesc(s) ==
    IF s = <<>> THEN <<>>
    ELSE Insert(SortDesc(SubSeq(s, 1, Len(s) - 1)), s[Len(s)])

\* lines 32 and 39: reduce((sum, t) => sum + t.amount, 0)
RECURSIVE SumAmounts(_)
SumAmounts(s) ==
    IF s = <<>> THEN Zero
    ELSE Plus(SumAmounts(SubSeq(s, 1, Len(s) - 1)), s[Len(s)].amount)

TopN == 4

\* line 30: debitTransactions.slice(0, 4)
TopItems(debitTransactions) ==
    SubSeq(debitTransactions, 1,
           IF Len(debitTransactions) < TopN THEN Len(debitTransactions) ELSE TopN)

\* line 31: debitTransactions.slice(4)
OtherItems(debitTransactions) ==
    SubSeq(debitTransactions, TopN + 1, Len(debitTransactions))

\* Mutant of ChartItems: the Others slice is pushed even when nothing remains.
ChartItemsAlwaysOthers(debitTransactions) ==
    Append(TopItems(debitTransactions),
           [description |-> "Others",
            amount |-> SumAmounts(OtherItems(debitTransactions))])

\* lines 34-37
ChartItems(debitTransactions) ==
    IF Len(OtherItems(debitTransactions)) > 0
    THEN Append(TopItems(debitTransactions),
                [description |-> "Others",
                 amount |-> SumAmounts(OtherItems(debitTransactions))])
    ELSE TopItems(debitTransactions)

\* line 39
TotalSpent(debitTransactions) == SumAmounts(debitTransactions)

(***************************************************************************)
(* Line 113: ((item.amount / totalSpent) * 100).toFixed(1).  The quotient  *)
(* and the product are each rounded to a double before toFixed rounds the  *)
(* exact value of the result to one decimal.  The arithmetic is done on    *)
(* exact naturals, written as little-endian sequences of 15-bit limbs.     *)
(***************************************************************************)
LimbBase == Pow2(15)

RECURSIVE BNorm(_)
BNorm(x) == IF x # <<>> /\ x[Len(x)] = 0 THEN BNorm(SubSeq(x, 1, Len(x) - 1)) ELSE x

RECURSIVE BFromInt(_)
BFromInt(n) == IF n = 0 THEN <<>> ELSE <<n % LimbBase>> \o BFromInt(n \div LimbBase)

BRest(x) == IF x = <<>> THEN <<>> ELSE Tail(x)
BLow(x) == IF x = <<>> THEN 0 ELSE Head(x)

\* x + y + c
RECURSIVE BAddC(_, _, _)
BAddC(x, y, c) ==
    IF x = <<>> /\ y = <<>> THEN BFromInt(c)
    ELSE LET s == BLow(x) + BLow(y) + c
         IN  <<s % LimbBase>> \o BAddC(BRest(x), BRest(y), s \div LimbBase)

\* x - y - b, for x >= y + b (limbs, not normalised)
RECURSIVE BSubB(_, _, _)
BSubB(x, y, b) ==
    IF x = <<>> THEN <<>>
    ELSE LET d == Head(x) - BLow(y) - b
         IN  IF d < 0 THEN <<d + LimbBase>> \o BSubB(Tail(x), BRest(y), 1)
             ELSE <<d>> \o BSubB(Tail(x), BRest(y), 0)

BSub(x, y) == BNorm(BSubB(x, y, 0))

\* x < y, for normalised x and y
RECURSIVE BLess(_, _)
BLess(x, y) ==
    IF Len(x) # Len(y) THEN Len(x) < Len(y)
    ELSE IF x = <<>> THEN FALSE
    ELSE IF x[Len(x)] # y[Len(y)] THEN x[Len(x)] < y[Len(y)]
    ELSE BLess(SubSeq(x, 1, Len(x) - 1), SubSeq(y, 1, Len(y) - 1))

\* x * k + c, for k < LimbBase
RECURSIVE BMulC(_, _, _)
BMulC(x, k, c) ==
    IF x = <<>> THEN BFromInt(c)
    ELSE LET s == Head(x) * k + c
         IN  <<s % LimbBase>> \o BMulC(Tail(x), k, s \div LimbBase)

BMul(x, k) == BNorm(BMulC(x, k, 0))

\* Quotient and remainder of x by d, for d < LimbBase
RECURSIVE BDivRem(_, _)
BDivRem(x, d) ==
    IF x = <<>> THEN [q |-> <<>>, r |-> 0]
    ELSE LET up == BDivRem(Tail(x), d)
             cur == up.r * LimbBase + Head(x)
         IN  [q |-> <<cur \div d>> \o up.q, r |-> cur % d]

BDiv(x, d) == BNorm(BDivRem(x, d).q)

\* x * 2^n and floor(x / 2^n)
BShl(x, n) ==
    IF x = <<>> THEN <<>>
    ELSE [i \in 1..(n \div 15) |-> 0] \o BMul(x, Pow2(n % 15))
BShr(x, n) ==
    IF Len(x) <= n \div 15 THEN <<>>
    ELSE BDiv(SubSeq(x, (n \div 15) + 1, Len(x)), Pow2(n % 15))

BBitLen(x) == IF x = <<>> THEN 0 ELSE 15 * (Len(x) - 1) + BitLength(x[Len(x)])
BIsOdd(x) == BLow(x) % 2 = 1

RECURSIVE BDigits(_)
BDigits(x) ==
    IF x = <<>> THEN ""
    ELSE BDigits(BDiv(x, 10)) \o ToString(BDivRem(x, 10).r)

BToString(x) == IF x = <<>> THEN "0" ELSE BDigits(x)

\* The exact value of a double.
BFromNum(x) == BAddC(BShl(BFromInt(x.hi), 53), BFromInt(x.lo), 0)

\* Long division: m and r are the quotient bits found so far and the
\* remainder, d the divisor, k the number of bits still to produce.
RECURSIVE DivLoop(_, _, _, _)
DivLoop(m, r, d, k) ==
    IF k = 0 \/ m = <<>>      \* m is never empty: the test has it computed bit by bit
    THEN [m |-> m, r |-> r]
    ELSE LET r2 == BAddC(r, r, 0)
         IN  IF BLess(r2, d) THEN DivLoop(BAddC(m, m, 0), r2, d, k - 1)
             ELSE DivLoop(BAddC(m, m, 1), BSub(r2, d), d, k - 1)

\* a / t on doubles (a, t > 0 given exactly): the double m * 2^e with a
\* 53-bit m, the exact quotient rounded to nearest, ties to even.
Quotient(a, t) ==
    LET la == BBitLen(a)
        lt == BBitLen(t)
        a1 == IF la < lt THEN BShl(a, lt - la) ELSE a
        d == IF la > lt THEN BShl(t, la - lt) ELSE t
        low == BLess(a1, d)
        a2 == IF low THEN BAddC(a1, a1, 0) ELSE a1
        s == IF low THEN la - lt - 1 ELSE la - lt
        res == DivLoop(<<1>>, BSub(a2, d), d, 52)
        twice == BAddC(res.r, res.r, 0)
        up == BLess(d, twice) \/ (twice = d /\ BIsOdd(res.m))
    IN  [m |-> IF up THEN BAddC(res.m, <<>>, 1) ELSE res.m, e |-> s - 52]

\* q * 100 on doubles, for the double q = m * 2^e.
Times100(q) ==
    LET prod == BMul(q.m, 100)
        k == BBitLen(prod) - 53
        kept == BShr(prod, k)
        rest == Head(prod) % Pow2(k)
        half == Pow2(k - 1)
        up == rest > half \/ (rest = half /\ BIsOdd(kept))
    IN  [m |-> IF up THEN BAddC(kept, <<>>, 1) ELSE kept, e |-> q.e + k]

\* x * 10^j and floor(x / 10^j)
RECURSIVE BMulPow10(_, _)
BMulPow10(x, j) == IF j = 0 \/ x = <<>> THEN x ELSE BMulPow10(BMul(x, 10), j - 1)
RECURSIVE BDivPow10(_, _)
BDivPow10(x, j) == IF j = 0 \/ x = <<>> THEN x ELSE BDivPow10(BDiv(x, 10), j - 1)

\* Decimal digits of x, most significant first.
RECURSIVE BDigitSeq(_)
BDigitSeq(x) ==
    IF x = <<>> THEN <<>> ELSE Append(BDigitSeq(BDiv(x, 10)), BDivRem(x, 10).r)

RECURSIVE DropTrailingZeros(_)
DropTrailingZeros(ds) ==
    IF ds # <<>> /\ ds[Len(ds)] = 0 THEN DropTrailingZeros(SubSeq(ds, 1, Len(ds) - 1)) ELSE ds

RECURSIVE DigitString(_)
DigitString(ds) == IF ds = <<>> THEN "" ELSE ToString(Head(ds)) \o DigitString(Tail(ds))

\* The integer of at most k significant digits nearest to the integer
\* double p = m * 2^e among those that read back as p (round to nearest,
\* ties to even), for the least such k; of two equally near, the one with
\* the even last digit.
RECURSIVE ShortestFrom(_, _)
ShortestFrom(p, k) ==
    LET value == BShl(p.m, p.e)
        twice == BAddC(value, value, 0)
        ulp == BShl(<<1>>, p.e)
        below == IF p.m = BShl(<<1>>, 52) THEN BShl(<<1>>, p.e - 1) ELSE ulp
        lo2 == BSub(twice, below)
        hi2 == BAddC(twice, ulp, 0)
        even == ~BIsOdd(p.m)
        InRange(v) == LET v2 == BAddC(v, v, 0)
                      IN  IF even THEN ~BLess(v2, lo2) /\ ~BLess(hi2, v2)
                          ELSE BLess(lo2, v2) /\ BLess(v2, hi2)
        j == Len(BDigitSeq(value)) - k
        sf == BDivPow10(value, j)
        sc == BAddC(sf, <<>>, 1)
        vf == BMulPow10(sf, j)
        vc == BMulPow10(sc, j)
        df == BSub(value, vf)
        dc == BSub(vc, value)
    IN  IF j <= 0 THEN value
        ELSE IF InRange(vf) /\ InRange(vc)
             THEN IF BLess(df, dc) THEN vf
                  ELSE IF BLess(dc, df) THEN vc
                  ELSE IF BIsOdd(sf) THEN vc ELSE vf
        ELSE IF InRange(vf) THEN vf
        ELSE IF InRange(vc) THEN vc
        ELSE ShortestFrom(p, k + 1)

\* Number::toString of an integer double p >= 10^21: the shortest digits
\* that read back as p, in exponent form.
NumberToString(p) ==
    LET all == BDigitSeq(ShortestFrom(p, 1))
        ds == DropTrailingZeros(all)
    IN  ToString(Head(ds))
           \o (IF Len(ds) > 1 THEN "." \o DigitString(Tail(ds)) ELSE "")
           \o "e+" \o ToString(Len(all) - 1)

\* Number.prototype.toFixed(1) of the double p = m * 2^e: ToString(p) when
\* p >= 10^21; otherwise the integer n with n / 10 nearest to p, the larger
\* of two, printed with one decimal.
ToFixed1OfDouble(p) ==
    IF p.e >= 0 /\ ~BLess(BShl(p.m, p.e), BMulPow10(<<1>>, 21))
    THEN NumberToString(p)
    ELSE LET n == IF p.e >= 0 THEN BShl(BMul(p.m, 10), p.e)
                  ELSE BShr(BAddC(BMul(p.m, 20), BShl(<<1>>, 0 - p.e), 0), 1 - p.e)
         IN  BToString(BDiv(n, 10)) \o "." \o ToString(BDivRem(n, 10).r)

\* Number.prototype.toFixed(1) of a finite non-negative value given in tenths.
ToFixed1(tenths) == ToString(tenths \div 10) \o "." \o ToString(tenths % 10)

\* The parts of amount and total that decide the quotient: the values
\* themselves below 2^53, the multiples of 2^53 above.
Leading(amount, totalSpent) ==
    IF totalSpent.hi = 0 THEN <<amount.lo, totalSpent.lo>>
    ELSE <<amount.hi, totalSpent.hi>>

\* The exact percentage, in tenths, rounded half up.
ExactTenths(u, v) == (2000 * u + v) \div (2 * v)

\* The two roundings change the exact percentage x by less than x * 2^-51.
\* When x lies off a rounding boundary n + 1/2 (in tenths) it is at least
\* 1 / (2 * total) away from it, which is more than x * 2^-51 for amounts
\* below 2^40; above 2^53 the same holds for the quotient of the high parts,
\* which the low parts change by less than 2^-21.  The result is then the
\* exact percentage rounded; on a boundary the doubles decide.
Decided(amount, totalSpent) ==
    LET u == Leading(amount, totalSpent)[1]
        v == Leading(amount, totalSpent)[2]
    IN  /\ totalSpent.hi = 0 => amount.hi = 0
        /\ amount.hi < 1024 /\ totalSpent.hi < 1024
        /\ amount.lo < 1048576 /\ totalSpent.lo < 1048576
        /\ 2000 * u - (2 * ExactTenths(u, v) - 1) * v >= 1

\* line 113: ((item.amount / totalSpent) * 100).toFixed(1).  0 / 0 is NaN and
\* x / 0 is Infinity; toFixed prints them as such.
Percentage(amount, totalSpent) ==
    IF IsZero(totalSpent)
    THEN IF IsZero(amount) THEN "NaN" ELSE "Infinity"
    ELSE IF IsZero(amount) THEN "0.0"
    ELSE IF Decided(amount, totalSpent)
    THEN ToFixed1(ExactTenths(Leading(amount, totalSpent)[1], Leading(amount, totalSpent)[2]))
    ELSE ToFixed1OfDouble(Times100(Quotient(BFromNum(amount), BFromNum(totalSpent))))

\* lines 16-18
DebitTransactions(d) == SortDesc(SelectSeq(d.transactions, IsDebit))

\* line 20
NoDebits(d) == Len(DebitTransactions(d)) = 0

\* lines 10-129: what the component returns.
DonutAnalytics(d) ==
    IF ~HasTransactions(d) \/ Len(d.transactions) = 0
    THEN [kind |-> "null"]
    ELSE IF NoDebits(d)
         THEN [kind |-> "noSpending"]
         ELSE LET debitTransactions == DebitTransactions(d)
                  chartItems == ChartItems(debitTransactions)
                  totalSpent == TotalSpent(debitTransactions)
              IN  [kind |-> "chart",
                   chartItems |-> chartItems,
                   totalSpent |-> totalSpent,
                   labels |-> [i \in 1..Len(chartItems) |-> chartItems[i].description],
                   percentages |-> [i \in 1..Len(chartItems) |->
                                       Percentage(chartItems[i].amount, totalSpent)]]

Unrendered == [kind |-> "unrendered"]

\* React renders the component with the prop.
Render ==
    /\ view = Unrendered
    /\ view' = DonutAnalytics(data)
    /\ UNCHANGED <<data, shellVars>>

\* lines 224-229: {parsedData && (<> ... <DonutAnalytics data={parsedData} /> </>)}
AppRender(pd) == IF pd # NullData THEN DonutAnalytics(pd) ELSE Unrendered

\* line 216: disabled={isLoading}
Disabled(loading) == loading

\* line 222: {error && <p className="error">{error}</p>}
ShownError(message) == message

\* lines 186-231: what App returns for the stored result pd, the flag
\* loading and the error message.
Rerender(pd, loading, message) ==
    /\ data' = pd
    /\ view' = AppRender(pd)
    /\ disabled' = Disabled(loading)
    /\ shownError' = ShownError(message)

-----------------------------------------------------------------------------
(***************************************************************************)
(* App: the orchestration shell.                                           *)
(*                                                                         *)
(* JavaScript runs one task at a time: a handler runs without interruption *)
(* up to its next await, and the rest of it runs later as a continuation.  *)
(* `running` names the invocation of handleSubmit that is inside such a    *)
(* synchronous section.  Each state write of handleSubmit is a step of its *)
(* own.                                                                    *)
(*                                                                         *)
(* Rendering.  The code that calls App again after a state write is not    *)
(* part of the sources; spec.md, section 5, has it as "the UI thread       *)
(* yields between event handlers and rendering passes".  Accordingly a     *)
(* section of handleSubmit only writes state, and the page is rendered in  *)
(* a step of its own once the section has returned; user events and        *)
(* promise settlements are taken when no section is executing and the page *)
(* shows the state.                                                        *)
(*                                                                         *)
(* Submits.  A submit event reaches handleSubmit from the form's submit    *)
(* button, which the browser lets through only when the button is not      *)
(* disabled (line 216) and the required file input is filled (line 213).   *)
(* Lines 150-153 of handleSubmit serve a browser that does not apply       *)
(* `required`; that environment is SpecNoValidation below.                 *)
(***************************************************************************)
MaxSubmits == 3     \* handleSubmit invocations explored

Banks == {"axis", "bob", "kotak", "sbi", "yes"}         \* lines 199-203
Files == {"statement.pdf", Undefined}                   \* e.target.files[0]
\* response.json() on success: a statement, a statement without
\* transactions, or JSON null
Payloads ==
    {Statement(<<Txn(1, One, "debit"), Txn(2, Zero, "credit")>>), Statement(<<>>), NullData}
StatusTexts == {"Bad Request", ""}                      \* response.statusText
RejectMessages == {"Failed to fetch", ""}               \* err.message of a rejected fetch
ServiceErrors == {"Unsupported bank", ""}               \* errorData.error

ValidationMessage == "Please select a PDF file to upload."      \* line 151
FallbackMessage == "An unexpected error occurred."              \* line 180
\* err.message of a rejected response.json(): the engine's text for the body
\* it could not parse.
SyntaxErrorMessages ==
    {"Unexpected token '<', \"<html>\" is not valid JSON",
     "Unexpected end of JSON input",
     "Unexpected token 'I', \"Internal S\"... is not valid JSON"}
TypeErrorMessage == "Cannot read properties of null (reading 'error')"

Done == [pc |-> "done", val |-> "", body |-> NullData]
At(label, v) == [pc |-> label, val |-> v, body |-> NullData]
WithBody(d) == [pc |-> "l177", val |-> "", body |-> d]

\* Mutant of NoFile: a strict comparison with null misses undefined.
NoFileNullOnly(f) == f = Null

\* line 150: !file
NoFile(f) == f \in {Null, Undefined}

\* Mutant of SubmitEnabled: the button is never disabled.
SubmitEnabledAlways == TRUE

\* The submit button lets a submit through: its disabled attribute (line
\* 216), as last rendered, is off.
SubmitEnabled == ~disabled

\* The page shows the state.
UpToDate ==
    /\ data = parsedData
    /\ disabled = Disabled(isLoading)
    /\ shownError = ShownError(error)

\* No section of handleSubmit is executing and the page has been rendered:
\* the next event or promise settlement is taken.
Idle == running = 0 /\ UpToDate

\* Mutant of ClearedResult: the prior result is left in place.
ClearedResultKept == parsedData

\* line 156: setParsedData(null)
ClearedResult == NullData

\* line 213: required, on the file input
RequiredSatisfied == file \notin {Null, Undefined}

\* Mutant of ClearedError: the prior error is left in place.
ClearedErrorKept == error

\* line 157: setError('')
ClearedError == ""

\* line 173: errorData.error || `API Error: ${response.statusText}`
ApiErrorMessage(serviceError, statusText) ==
    IF serviceError # "" THEN serviceError ELSE "API Error: " \o statusText

\* line 180: err.message || 'An unexpected error occurred.'
CaughtMessage(message) == IF message # "" THEN message ELSE FallbackMessage

\* Mutant of LoadingAfterAttempt: the flag is not reset.
LoadingAfterAttemptKept == isLoading

\* line 182: setIsLoading(false)
LoadingAfterAttempt == FALSE

Pc(i) == calls[i].pc
Move(i, label, v) == [calls EXCEPT ![i] = At(label, v)]

\* line 198: onChange of the bank selector.
SelectBank(b) ==
    /\ Idle
    /\ b # bank
    /\ bank' = b
    /\ UNCHANGED <<analyticsVars, file, parsedData, isLoading, error, calls, running,
                   nSubmits, requests, disabled, shownError>>

\* line 212: onChange of the file input; files[0] is undefined when the
\* selection was emptied.
SelectFile(f) ==
    /\ Idle
    /\ f # file
    /\ file' = f
    /\ UNCHANGED <<analyticsVars, bank, parsedData, isLoading, error, calls, running,
                   nSubmits, requests, disabled, shownError>>

\* lines 147-155: handleSubmit is called with a submit event.  Without a
\* file it sets the validation message and returns; with one it enters the
\* attempt with its first state write.
HandleSubmit ==
    /\ nSubmits < MaxSubmits
    /\ nSubmits' = nSubmits + 1
    /\ IF NoFile(file)
       THEN /\ error' = ValidationMessage
            /\ calls' = Append(calls, Done)
            /\ UNCHANGED <<isLoading, running>>
       ELSE /\ isLoading' = TRUE
            /\ calls' = Append(calls, At("l156", ""))
            /\ running' = Len(calls) + 1
            /\ UNCHANGED error
    /\ UNCHANGED <<analyticsVars, bank, file, parsedData, requests, disabled, shownError>>

\* lines 195, 213 and 216: the form is submitted with its button.
ClickSubmit ==
    /\ Idle
    /\ SubmitEnabled
    /\ RequiredSatisfied
    /\ HandleSubmit

\* lines 195 and 216: the form is submitted with its button in a browser
\* that does not apply `required` (line 213).
SubmitWithoutValidation ==
    /\ Idle
    /\ SubmitEnabled
    /\ HandleSubmit

\* line 156
L156 ==
    /\ running # 0 /\ Pc(running) = "l156"
    /\ parsedData' = ClearedResult
    /\ calls' = Move(running, "l157", "")
    /\ UNCHANGED <<analyticsVars, bank, file, isLoading, error, running, nSubmits, requests,
                   disabled, shownError>>

\* line 157
L157 ==
    /\ running # 0 /\ Pc(running) = "l157"
    /\ error' = ClearedError
    /\ calls' = Move(running, "l166", "")
    /\ UNCHANGED <<analyticsVars, bank, file, parsedData, isLoading, running, nSubmits,
                   requests, disabled, shownError>>

\* lines 159-169: the form data is built from bank and file and the request
\* is issued; handleSubmit returns at the await.
L166 ==
    /\ running # 0 /\ Pc(running) = "l166"
    /\ requests' = requests + 1
    /\ calls' = Move(running, "awaitFetch", "")
    /\ running' = 0
    /\ UNCHANGED <<analyticsVars, bank, file, parsedData, isLoading, error, nSubmits,
                   disabled, shownError>>

\* lines 166-176: the fetch promise settles.  A rejection enters the catch
\* block; a response makes the handler read its body and wait again.
FetchSettles(i) ==
    /\ Idle
    /\ Pc(i) = "awaitFetch"
    /\ \/ \E m \in RejectMessages :
             /\ calls' = Move(i, "l180", m)
             /\ running' = i
       \/ /\ calls' = Move(i, "awaitJson", "")
          /\ UNCHANGED running
       \/ \E st \in StatusTexts :
             /\ calls' = Move(i, "awaitErrorJson", st)
             /\ UNCHANGED running
    /\ UNCHANGED <<analyticsVars, bank, file, parsedData, isLoading, error, nSubmits,
                   requests, disabled, shownError>>

\* lines 172-173: the body of a non-success response has been read: an
\* object (with or without an error field), null, or not JSON at all.
ErrorJsonSettles(i) ==
    /\ Idle
    /\ Pc(i) = "awaitErrorJson"
    /\ \/ \E e \in ServiceErrors :
             calls' = Move(i, "l180", ApiErrorMessage(e, calls[i].val))
       \/ calls' = Move(i, "l180", TypeErrorMessage)
       \/ \E m \in SyntaxErrorMessages : calls' = Move(i, "l180", m)
    /\ running' = i
    /\ UNCHANGED <<analyticsVars, bank, file, parsedData, isLoading, error, nSubmits,
                   requests, disabled, shownError>>

\* line 176: the body of a success response has been read, or is not JSON.
JsonSettles(i) ==
    /\ Idle
    /\ Pc(i) = "awaitJson"
    /\ \/ \E d \in Payloads : calls' = [calls EXCEPT ![i] = WithBody(d)]
       \/ \E m \in SyntaxErrorMessages : calls' = Move(i, "l180", m)
    /\ running' = i
    /\ UNCHANGED <<analyticsVars, bank, file, parsedData, isLoading, error, nSubmits,
                   requests, disabled, shownError>>

\* line 177
L177 ==
    /\ running # 0 /\ Pc(running) = "l177"
    /\ parsedData' = calls[running].body
    /\ calls' = Move(running, "l182", "")
    /\ UNCHANGED <<analyticsVars, bank, file, isLoading, error, running, nSubmits, requests,
                   disabled, shownError>>

\* line 180
L180 ==
    /\ running # 0 /\ Pc(running) = "l180"
    /\ error' = CaughtMessage(calls[running].val)
    /\ calls' = Move(running, "l182", "")
    /\ UNCHANGED <<analyticsVars, bank, file, parsedData, isLoading, running, nSubmits,
                   requests, disabled, shownError>>

\* line 182; handleSubmit returns.
L182 ==
    /\ running # 0 /\ Pc(running) = "l182"
    /\ isLoading' = LoadingAfterAttempt
    /\ calls' = [calls EXCEPT ![running] = Done]
    /\ running' = 0
    /\ UNCHANGED <<analyticsVars, bank, file, parsedData, error, nSubmits, requests,
                   disabled, shownError>>

\* The rendering pass that follows a section of handleSubmit: the page shows
\* the state the section has left.
AppRenders ==
    /\ running = 0
    /\ ~UpToDate
    /\ Rerender(parsedData, isLoading, error)
    /\ UNCHANGED <<bank, file, parsedData, isLoading, error, calls, running, nSubmits,
                   requests>>

\* The synchronous sections of handleSubmit.
HandlerStep == L156 \/ L157 \/ L166 \/ L177 \/ L180 \/ L182

ShellInit ==
    /\ bank = "axis"
    /\ file = Null
    /\ parsedData = NullData
    /\ isLoading = FALSE
    /\ error = ""
    /\ calls = <<>>
    /\ running = 0
    /\ nSubmits = 0
    /\ requests = 0
    /\ disabled = FALSE
    /\ shownError = ""

Init ==
    /\ data = NullData
    /\ view = Unrendered
    /\ ShellInit

Next ==
    \/ \E b \in Banks : SelectBank(b)
    \/ \E f \in Files : SelectFile(f)
    \/ ClickSubmit
    \/ HandlerStep
    \/ AppRenders
    \/ \E i \in DOMAIN calls : FetchSettles(i)
    \/ \E i \in DOMAIN calls : ErrorJsonSettles(i)
    \/ \E i \in DOMAIN calls : JsonSettles(i)

Spec == Init /\ [][Next]_vars

\* The event loop runs every continuation that is ready, and the rendering
\* pass follows the handler.
FairSpec == Spec /\ WF_vars(HandlerStep) /\ WF_vars(AppRenders)

\* The shell in a browser that does not apply `required`.
NextNoValidation ==
    \/ \E b \in Banks : SelectBank(b)
    \/ \E f \in Files : SelectFile(f)
    \/ SubmitWithoutValidation
    \/ HandlerStep
    \/ AppRenders
    \/ \E i \in DOMAIN calls : FetchSettles(i)
    \/ \E i \in DOMAIN calls : ErrorJsonSettles(i)
    \/ \E i \in DOMAIN calls : JsonSettles(i)

SpecNoValidation == Init /\ [][NextNoValidation]_vars

InitAnalytics ==
    /\ \/ data \in {NullData, NoTransactionsData}
       \/ \E n \in 0..MaxTxns : \E f \in [1..n -> Amounts \X Types] :
              data = Statement([i \in 1..n |-> Txn(i, f[i][1], f[i][2])])
    /\ view = Unrendered
    /\ ShellInit

NextAnalytics == Render

SpecAnalytics == InitAnalytics /\ [][NextAnalytics]_vars

-----------------------------------------------------------------------------
(***************************************************************************)
(* Properties of DonutAnalytics                                            *)
(***************************************************************************)
Rendered == view # Unrendered

\* Positions of the debit entries in the payload's transaction list.
DebitPositions ==
    IF HasTransactions(data)
    THEN {i \in DOMAIN data.transactions : data.transactions[i].type = "debit"}
    ELSE {}

\* Position in the payload of the entry a slice was taken from (0 if none).
PositionOf(slice) ==
    IF \E i \in DebitPositions : data.transactions[i] = slice
    THEN CHOOSE i \in DebitPositions : data.transactions[i] = slice
    ELSE 0

\* The synthetic slice of line 36: a label and an amount, nothing else.
IsOthers(slice) == DOMAIN slice = {"description", "amount"} /\ slice.description = "Others"

\* chartItems.reduce((sum, item) => sum + item.amount, 0)
SliceSum == SumAmounts(view.chartItems)

\* Left-to-right sums of the amounts at the positions in S, in every order.
RECURSIVE SumsInSomeOrder(_)
SumsInSomeOrder(S) ==
    IF S = {} THEN {Zero}
    ELSE UNION { { Plus(x, data.transactions[i].amount) : x \in SumsInSomeOrder(S \ {i}) }
                 : i \in S }

\* C5: for every transaction list with at least one debit entry, the grand
\* total equals the sum of the amounts of all slices.
C5_TotalEqualsSliceSum ==
    view.kind = "chart" => view.totalSpent = SliceSum

\* C6: with n >= 1 debit entries the aggregation returns exactly n slices and
\* no Others slice when n <= 4, and exactly 5 slices, the last one labelled
\* Others, when n > 4.
C6_SliceCount ==
    (Rendered /\ Cardinality(DebitPositions) >= 1) =>
        /\ view.kind = "chart"
        /\ LET n == Cardinality(DebitPositions)
               items == view.chartItems
           IN  IF n <= 4
               THEN /\ Len(items) = n
                    /\ \A i \in 1..Len(items) : ~IsOthers(items[i])
               ELSE /\ Len(items) = 5
                    /\ IsOthers(items[5])
                    /\ view.labels[5] = "Others"
                    /\ \A i \in 1..4 : ~IsOthers(items[i])

\* C6 witness: a rendered chart for exactly four debit entries, four slices.
C6_Witness ==
    /\ view.kind = "chart"
    /\ Cardinality(DebitPositions) = 4
    /\ Len(data.transactions) > 4
    /\ Len(view.chartItems) = 4

\* C7: with more than 4 debit entries the 4 individual slices are the 4
\* largest debit entries in descending order, ties in original order, each
\* carried verbatim; Others is the sum of the remaining debit amounts, none
\* of which exceeds an individual slice.
C7_TopFourAndOthers ==
    (Rendered /\ Cardinality(DebitPositions) > 4) =>
        /\ view.kind = "chart"
        /\ Len(view.chartItems) = 5
        /\ LET items == view.chartItems
               top == {PositionOf(items[i]) : i \in 1..4}
               rest == DebitPositions \ top
           IN  /\ \A i \in 1..4 : PositionOf(items[i]) \in DebitPositions
               /\ Cardinality(top) = 4
               /\ \A i \in 1..4 : view.labels[i] = data.transactions[PositionOf(items[i])].description
               /\ \A i \in 1..3 : ~Less(items[i].amount, items[i + 1].amount)
               /\ \A i \in 1..3 : items[i].amount = items[i + 1].amount
                                     => PositionOf(items[i]) < PositionOf(items[i + 1])
               /\ \A r \in rest : \A i \in 1..4 :
                      /\ ~Less(items[i].amount, data.transactions[r].amount)
                      /\ items[i].amount = data.transactions[r].amount
                            => PositionOf(items[i]) < r
               /\ items[5].amount \in SumsInSomeOrder(rest)

\* C7 witness: six debit entries with a tie across the top-4 boundary and
\* an Others slice that folds two entries.
C7_Witness ==
    /\ view.kind = "chart"
    /\ Cardinality(DebitPositions) = 6
    /\ Len(view.chartItems) = 5
    /\ view.chartItems[1].amount = Big
    /\ view.chartItems[4].amount = One
    /\ view.chartItems[5].amount = Num(0, 1)
    /\ data.transactions[1].amount = Zero

\* C8: when every debit amount is zero the percentage of every slice is 0.0.
C8_ZeroTotalPercentage ==
    (view.kind = "chart" /\ IsZero(view.totalSpent)) =>
        \A i \in DOMAIN view.percentages : view.percentages[i] = "0.0"

\* C9: a stored result with a transaction list holding no debit entry
\* (empty, or credits only) yields the explicit no-spending result.
C9_NoDebitsPlaceholder ==
    (Rendered /\ HasTransactions(data) /\ DebitPositions = {}) =>
        view.kind = "noSpending"

-----------------------------------------------------------------------------
(***************************************************************************)
(* Properties of the orchestration shell                                   *)
(***************************************************************************)
\* Invocations of handleSubmit whose request has been issued and whose
\* response (status and body) has not been fully received.
Outstanding == {i \in DOMAIN calls : Pc(i) \in {"awaitFetch", "awaitJson", "awaitErrorJson"}}

\* Invocations of handleSubmit that have not returned.
Alive == {i \in DOMAIN calls : Pc(i) # "done"}

\* The step is a submit event reaching handleSubmit.
SubmitEvent == nSubmits' = nSubmits + 1

\* C1: at most one network request is outstanding at any time; no submit
\* starts an attempt while an earlier one has not settled, because the
\* submit control is disabled while the page shows the Submitting state.
C1_OneRequestOutstanding ==
    /\ [](Cardinality(Outstanding) <= 1)
    /\ [](Cardinality(Alive) <= 1)
    /\ []((Alive # {} /\ Idle) => ~SubmitEnabled)
    /\ [][SubmitEvent => (Alive = {} /\ ~isLoading)]_vars

\* C1 witness: a request is outstanding in a later attempt, after an earlier
\* attempt has run to its end, and the page shows the disabled control.
C1_Witness ==
    \E i \in DOMAIN calls :
        /\ i >= 2
        /\ Pc(i) = "awaitFetch"
        /\ requests = 2
        /\ isLoading
        /\ disabled

\* C2: a submit made while no file is selected issues no request, leaves
\* isLoading false and sets the validation message, from every reachable
\* state.
C2_NoFileSubmit ==
    [][(SubmitEvent /\ file \in {Null, Undefined}) =>
            /\ requests' = requests
            /\ Alive' = Alive
            /\ running' = 0
            /\ isLoading = FALSE /\ isLoading' = FALSE
            /\ error' = ValidationMessage
            /\ parsedData' = parsedData]_vars

\* C2 witness: the validation message is on the page after the selection
\* was emptied again, following an attempt that did issue a request.
C2_Witness ==
    /\ file = Undefined
    /\ error = ValidationMessage
    /\ shownError = ValidationMessage
    /\ isLoading = FALSE
    /\ requests = 1
    /\ nSubmits = 2
    /\ Alive = {}

\* C3: every submit after an outcome clears result and error before the
\* request goes out; a stored result is never present together with an error
\* message, in the state and on the page; a failed attempt leaves no stored
\* result.
C3_ResultNeverWithError ==
    /\ \A i \in DOMAIN calls :
          Pc(i) \in {"l166", "awaitFetch", "awaitJson", "awaitErrorJson", "l177", "l180"}
             => parsedData = NullData /\ error = ""
    /\ ~(parsedData # NullData /\ error # "")
    /\ ~(data # NullData /\ shownError # "")
    /\ \A i \in DOMAIN calls : Pc(i) = "l180" => parsedData = NullData
    /\ error # "" => parsedData = NullData

\* C3 witness: a submit after a Success has cleared the stored result and is
\* about to issue its request; the page still shows the chart of the prior
\* result.
C3_Witness ==
    /\ running # 0
    /\ Pc(running) = "l166"
    /\ nSubmits >= 2
    /\ parsedData = NullData
    /\ data # NullData
    /\ view.kind = "chart"

\* The attempt of invocation i has failed: its catch block has been entered.
Failing(i) == i \in DOMAIN calls /\ Pc(i) = "l180"

\* C4: every attempt that fails leaves Submitting: isLoading becomes false,
\* an error message is set, the submit control is enabled again, and the
\* failure issues no further request.
C4_FailureLeavesSubmitting ==
    /\ \A i \in 1..MaxSubmits :
          Failing(i) ~> (/\ i \in DOMAIN calls /\ Pc(i) = "done"
                         /\ isLoading = FALSE
                         /\ error # ""
                         /\ shownError = error
                         /\ SubmitEnabled
                         /\ Alive = {})
    /\ [][(\E i \in DOMAIN calls : Pc(i) \in {"l180", "l182"}) =>
              (requests' = requests /\ nSubmits' = nSubmits)]_vars

\* C4 witness: a failed attempt is over: the error is shown, nothing is
\* loading, the control is enabled, and only the one request of that attempt
\* was issued.
C4_Witness ==
    /\ nSubmits = 1
    /\ requests = 1
    /\ Alive = {}
    /\ isLoading = FALSE
    /\ error = FallbackMessage
    /\ shownError = FallbackMessage
    /\ SubmitEnabled
    /\ parsedData = NullData

\* C10 as claimed: isLoading = true and a non-empty error never hold at the
\* same time.
C10_LoadingExcludesError == ~(isLoading /\ error # "")

\* C10 amended: isLoading = true with a non-empty error occurs only inside a
\* synchronous section of handleSubmit, before line 157 has cleared the
\* error or after line 180 has set it and before line 182 resets the flag;
\* between sections, and for as long as a request is outstanding, a set
\* isLoading implies an empty error.
C10_LoadingWithErrorOnlyInsideHandler ==
    /\ (isLoading /\ error # "") =>
          /\ running # 0
          /\ Pc(running) \in {"l156", "l157", "l182"}
    /\ running = 0 => ~(isLoading /\ error # "")
    /\ Outstanding # {} => (isLoading /\ error = "")

\* C10 witness: the catch block has set the error and the finally block has
\* not yet reset isLoading.
C10_Witness ==
    /\ running # 0
    /\ Pc(running) = "l182"
    /\ isLoading
    /\ error # ""

====
